---- MODULE Spec2Model ----
(***************************************************************************)
(* The image generation route handler (POST) and its JSON "DB" helper      *)
(* (saveRecord).  Each request is an async function; it is modelled as a   *)
(* process whose steps are the synchronous code segments between awaits.   *)
(*                                                                         *)
(* Encoding of JavaScript values:                                          *)
(*   - a string is a sequence of pieces (tokens); "" is <<>>; a data URL   *)
(*     "data:image/png;base64,QUJD" is <<"data:","image/png",";base64",    *)
(*     ",","QUJD">>, so startsWith / split / includes are computed;        *)
(*   - an object is a record; an absent key is an absent field;            *)
(*   - a nullable value is a sequence of length 0 (null / undefined) or 1. *)
(***************************************************************************)
EXTENDS Integers, Sequences, FiniteSets, TLC

\* ---------------------------------------------------------------- bounds
NumReqs == 2
MaxClock == 1

Reqs == 1..NumReqs

\* ------------------------------------------------------- string pieces
DATA == "data:"
PNG == "image/png"
JPEG == "image/jpeg"
B64 == ";base64"
COMMA == ","

Null == <<>>
Some(x) == <<x>>
EmptyObj == [k \in {} |-> 0]

Has(o, k) == k \in DOMAIN o
\* JS truthiness of a string
Truthy(s) == s # <<>>
\* JS truthiness of o.k where the field holds a string
Field(o, k) == Has(o, k) /\ Truthy(o[k])

startsWith(s, piece) == Len(s) > 0 /\ s[1] = piece
includes(s, piece) == \E i \in 1..Len(s) : s[i] = piece

RECURSIVE split(_, _)
split(s, sep) ==
  IF \A i \in 1..Len(s) : s[i] # sep
  THEN <<s>>
  ELSE LET i == CHOOSE k \in 1..Len(s) :
                   s[k] = sep /\ \A j \in 1..(k - 1) : s[j] # sep
       IN <<SubSeq(s, 1, i - 1)>> \o split(SubSeq(s, i + 1, Len(s)), sep)

\* ------------------------------------------------- history translation
inferMime(url) == IF includes(url, PNG) THEN <<PNG>> ELSE <<JPEG>>

formatPart(item, part) ==
  IF Field(part, "text")
  THEN [text |-> part.text]
  ELSE IF Field(part, "image") /\ item.role = "user"
             /\ Len(split(part.image, COMMA)) > 1
  THEN [inlineData |-> [data |-> split(part.image, COMMA)[2],
                        mimeType |-> inferMime(part.image)]]
  ELSE [text |-> <<>>]

keepPart(part) == DOMAIN part # {}

formatItem(item) ==
  [role |-> item.role,
   parts |-> SelectSeq([i \in 1..Len(item.parts) |->
                          formatPart(item, item.parts[i])], keepPart)]

keepItem(item) == Len(item.parts) > 0

formattedHistory(requestData) ==
  IF Has(requestData, "history") /\ Len(requestData.history) > 0
  THEN SelectSeq([i \in 1..Len(requestData.history) |->
                    formatItem(requestData.history[i])], keepItem)
  ELSE <<>>

\* --------------------------------------------------- request validation
\* faulty variant: only an absent prompt is rejected
promptMissing_emptyAccepted(requestData) == ~Has(requestData, "prompt")
promptMissing(requestData) == ~Field(requestData, "prompt")

\* faulty variant: the "data:" prefix is not checked
validDataUrl_noPrefixCheck(inputImage) == Len(split(inputImage, COMMA)) >= 2
validDataUrl(inputImage) ==
  startsWith(inputImage, DATA) /\ Len(split(inputImage, COMMA)) >= 2

\* faulty variant: a second, empty part is always pushed
messageParts_extraPart(requestData) ==
  <<[text |-> requestData.prompt], [text |-> <<>>]>>
messageParts(requestData) ==
  <<[text |-> requestData.prompt]>> \o
  (IF Field(requestData, "image")
   THEN <<[inlineData |-> [data |-> split(requestData.image, COMMA)[2],
                           mimeType |-> inferMime(requestData.image)]]>>
   ELSE <<>>)

\* --------------------------------------------------- response extraction
NoExtract == [imageData |-> Null, mimeType |-> <<PNG>>, textResponse |-> Null]

RECURSIVE extract(_, _)
extract(parts, acc) ==
  IF parts = <<>> THEN acc
  ELSE LET part == Head(parts)
           nxt == IF Has(part, "inlineData")
                  THEN [acc EXCEPT !.imageData = Some(part.inlineData.data),
                                   !.mimeType =
                                     IF Field(part.inlineData, "mimeType")
                                     THEN part.inlineData.mimeType
                                     ELSE <<PNG>>]
                  ELSE IF Field(part, "text")
                  THEN [acc EXCEPT !.textResponse = Some(part.text)]
                  ELSE acc
       IN extract(Tail(parts), nxt)

processResponse(response) ==
  IF Len(response.candidates) > 0
  THEN extract(response.candidates[1].parts, NoExtract)
  ELSE NoExtract

\* truthiness of the nullable string imageData
hasImage(img) == img # Null /\ Truthy(img[1])

extensionOf(mime) == IF mime = <<PNG>> THEN "png" ELSE "jpg"

dataUrl(mime, img) == <<DATA>> \o mime \o <<B64, COMMA>> \o img

makeRecord(prompt, path, t) ==
  [prompt |-> prompt, imagePath |-> path, createdAt |-> t]

\* ---------------------------------------------------------------- inputs
PngUrl == <<DATA, PNG, B64, COMMA, "QUJD">>
JpegUrl == <<DATA, JPEG, B64, COMMA, "REVG">>
NoPrefixUrl == <<"http://x/a", COMMA, "b.png">>
NoCommaUrl == <<DATA, PNG>>

EmptyTurn == [role |-> "user", parts |-> <<[text |-> <<>>]>>]
UserTurn == [role |-> "user",
             parts |-> <<[text |-> <<"draw">>], [image |-> JpegUrl]>>]
ModelTurn == [role |-> "model", parts |-> <<[image |-> PngUrl]>>]

Bodies ==
  { EmptyObj,
    [prompt |-> <<>>, image |-> PngUrl],
    [prompt |-> <<"p">>],
    [prompt |-> <<"p">>, image |-> <<>>, history |-> <<>>],
    [prompt |-> <<"p">>, image |-> PngUrl],
    [prompt |-> <<"p">>, image |-> NoPrefixUrl],
    [prompt |-> <<"p">>, image |-> NoCommaUrl],
    [prompt |-> <<"p">>, history |-> <<EmptyTurn>>],
    [prompt |-> <<"q">>, history |-> <<UserTurn, EmptyTurn, ModelTurn>>] }

ConcurrentBodies ==
  { EmptyObj,
    [prompt |-> <<>>, image |-> PngUrl],
    [prompt |-> <<"p">>],
    [prompt |-> <<"p">>, image |-> NoPrefixUrl],
    [prompt |-> <<"p">>, image |-> NoCommaUrl] }

TextPart == [text |-> <<"desc">>]
PngPart == [inlineData |-> [data |-> <<"QUJD">>, mimeType |-> <<PNG>>]]
JpegPart == [inlineData |-> [data |-> <<"REVG">>, mimeType |-> <<JPEG>>]]
BarePart == [inlineData |-> [data |-> <<"QUJD">>]]

Replies ==
  { [candidates |-> <<>>],
    [candidates |-> <<[parts |-> <<TextPart>>]>>],
    [candidates |-> <<[parts |-> <<TextPart, PngPart>>]>>],
    [candidates |-> <<[parts |-> <<JpegPart>>]>>],
    [candidates |-> <<[parts |-> <<BarePart>>]>>] }

ConcurrentReplies ==
  { [candidates |-> <<[parts |-> <<TextPart>>]>>],
    [candidates |-> <<[parts |-> <<TextPart, PngPart>>]>> ] }

ProviderErrors == {"provider unavailable"}
FsError == "EACCES"
InvalidImage == "Invalid image data URL format"
BadJson == "Unexpected end of JSON input"

\* ----------------------------------------------------------------- state
VARIABLES
  pc,               \* position of each request's handler
  requestData,      \* parsed body (nullable)
  calls,            \* number of chat.sendMessage invocations per request
  chat,             \* arguments of the provider call (nullable)
  rejected,         \* message of a rejected provider call (nullable)
  imageData, mimeType, textResponse,
  fileName,         \* nullable
  storedImagePath,  \* nullable
  record,           \* nullable
  data,             \* saveRecord's local array
  response,         \* HTTP response (nullable)
  imgWrites,        \* successful image writeFile calls per request
  appends,          \* successful store rewrites carrying the request's record
  now,              \* Date.now()
  dirExists,        \* IMAGE_DIR exists
  files,            \* image files: set of [name, content]
  dbExists,         \* DB_FILE_PATH exists
  db                \* parsed content of DB_FILE_PATH

locals == <<imageData, mimeType, textResponse, fileName, storedImagePath,
            record, data>>
counters == <<calls, imgWrites, appends>>
fsvars == <<dirExists, files, dbExists, db>>
vars == <<pc, requestData, chat, rejected, response, locals, counters,
          now, fsvars>>

Init ==
  /\ pc = [r \in Reqs |-> "idle"]
  /\ requestData = [r \in Reqs |-> Null]
  /\ calls = [r \in Reqs |-> 0]
  /\ chat = [r \in Reqs |-> Null]
  /\ rejected = [r \in Reqs |-> Null]
  /\ imageData = [r \in Reqs |-> Null]
  /\ mimeType = [r \in Reqs |-> <<PNG>>]
  /\ textResponse = [r \in Reqs |-> Null]
  /\ fileName = [r \in Reqs |-> Null]
  /\ storedImagePath = [r \in Reqs |-> Null]
  /\ record = [r \in Reqs |-> Null]
  /\ data = [r \in Reqs |-> <<>>]
  /\ response = [r \in Reqs |-> Null]
  /\ imgWrites = [r \in Reqs |-> 0]
  /\ appends = [r \in Reqs |-> 0]
  /\ now = 0
  /\ dirExists \in BOOLEAN
  /\ files = {}
  /\ dbExists = FALSE
  /\ db = <<>>

\* ------------------------------------------------------------- responses
respond(r, status, json) ==
  /\ response' = [response EXCEPT ![r] = Some([status |-> status, json |-> json])]
  /\ pc' = [pc EXCEPT ![r] = "done"]

\* outer catch, lines 244-253
fail500(r, message) ==
  respond(r, 500, [error |-> "Failed to generate image", details |-> message])

\* Buffer.from(imageData, "base64")
decodeBase64(s) ==
  LET byte(piece) == IF piece = "QUJD" THEN "ABC"
                     ELSE IF piece = "REVG" THEN "DEF" ELSE "?"
  IN [i \in 1..Len(s) |-> byte(s[i])]

publicPath(name) == [prefix |-> "/generated-images/", fileName |-> name]

\* fs.writeFile(filePath, buffer): creates or replaces the file
putFile(fs, name, content) ==
  {f \in fs : f.name # name} \cup {[name |-> name, content |-> content]}

\* --------------------------------------------------------------- actions
\* req.json() rejects (body is not JSON) -> outer catch
ReceiveMalformed(r) ==
  /\ pc[r] = "idle"
  /\ fail500(r, BadJson)
  /\ UNCHANGED <<requestData, chat, rejected, locals, counters, now, fsvars>>

\* req.json() resolves with b; lines 62-166 up to the await of sendMessage
Receive(r, b) ==
  /\ pc[r] = "idle"
  /\ requestData' = [requestData EXCEPT ![r] = Some(b)]
  /\ IF promptMissing(b)
     THEN /\ respond(r, 400, [error |-> "Prompt is required"])
          /\ UNCHANGED <<chat, calls>>
     ELSE IF Field(b, "image") /\ ~validDataUrl(b.image)
     THEN /\ fail500(r, InvalidImage)
          /\ UNCHANGED <<chat, calls>>
     ELSE /\ chat' = [chat EXCEPT ![r] =
                        Some([history |-> formattedHistory(b),
                              message |-> messageParts(b)])]
          /\ calls' = [calls EXCEPT ![r] = @ + 1]
          /\ pc' = [pc EXCEPT ![r] = "sendMessage"]
          /\ UNCHANGED response
  /\ UNCHANGED <<rejected, locals, imgWrites, appends, now, fsvars>>

\* saveRecord is entered: let data = []; await fs.readFile(...)
enterSaveRecord(r, path) ==
  /\ record' = [record EXCEPT ![r] =
                  Some(makeRecord(requestData[r][1].prompt, path, now))]
  /\ data' = [data EXCEPT ![r] = <<>>]
  /\ pc' = [pc EXCEPT ![r] = "readFile"]

\* faulty variant: the call is issued a second time before giving up
ProviderRejected_retry(r, m) ==
  /\ pc[r] = "sendMessage"
  /\ rejected' = [rejected EXCEPT ![r] = Some(m)]
  /\ calls' = [calls EXCEPT ![r] = @ + 1]
  /\ fail500(r, m)
  /\ UNCHANGED <<requestData, chat, locals, imgWrites, appends, now, fsvars>>
\* chat.sendMessage rejects: lines 167-170, then 244-253
ProviderRejected(r, m) ==
  /\ pc[r] = "sendMessage"
  /\ rejected' = [rejected EXCEPT ![r] = Some(m)]
  /\ fail500(r, m)
  /\ UNCHANGED <<requestData, chat, locals, counters, now, fsvars>>

\* chat.sendMessage resolves: lines 172-213 up to the await of mkdir,
\* or lines 172-233 and saveRecord up to the await of readFile
ProviderResolved(r, reply) ==
  LET x == processResponse(reply)
  IN /\ pc[r] = "sendMessage"
     /\ imageData' = [imageData EXCEPT ![r] = x.imageData]
     /\ mimeType' = [mimeType EXCEPT ![r] = x.mimeType]
     /\ textResponse' = [textResponse EXCEPT ![r] = x.textResponse]
     /\ IF hasImage(x.imageData)
        THEN /\ fileName' = [fileName EXCEPT ![r] =
                   Some([ts |-> now, ext |-> extensionOf(x.mimeType)])]
             /\ pc' = [pc EXCEPT ![r] = "mkdir"]
             /\ UNCHANGED <<record, data>>
        ELSE /\ enterSaveRecord(r, Null)
             /\ UNCHANGED fileName
     /\ UNCHANGED <<requestData, chat, rejected, response, storedImagePath,
                    counters, now, fsvars>>

\* fs.mkdir(IMAGE_DIR, {recursive: true}) settles; a failure is only logged
Mkdir(r, ok) ==
  /\ pc[r] = "mkdir"
  /\ dirExists' = (dirExists \/ ok)
  /\ pc' = [pc EXCEPT ![r] = "writeImage"]
  /\ UNCHANGED <<requestData, chat, rejected, response, locals, counters,
                 now, files, dbExists, db>>

\* fs.writeFile(filePath, buffer) resolves: lines 221-233
WriteImageOk(r) ==
  /\ dirExists
  /\ files' = putFile(files, fileName[r][1], decodeBase64(imageData[r][1]))
  /\ imgWrites' = [imgWrites EXCEPT ![r] = @ + 1]
  /\ storedImagePath' = [storedImagePath EXCEPT ![r] =
                           Some(publicPath(fileName[r][1]))]
  /\ enterSaveRecord(r, Some(publicPath(fileName[r][1])))
  /\ UNCHANGED <<requestData, chat, rejected, response, imageData, mimeType,
                 textResponse, fileName, calls, appends, now, dirExists,
                 dbExists, db>>

\* faulty variant: the rejection is caught and logged like mkdir's
WriteImageFailed_swallowed(r) ==
  /\ enterSaveRecord(r, Null)
  /\ UNCHANGED <<requestData, chat, rejected, response, imageData, mimeType,
                 textResponse, fileName, storedImagePath, counters, now,
                 fsvars>>
\* faulty variant: the rejection is caught and the path is still recorded
WriteImageFailed_pathKept(r) ==
  /\ storedImagePath' = [storedImagePath EXCEPT ![r] =
                           Some(publicPath(fileName[r][1]))]
  /\ enterSaveRecord(r, Some(publicPath(fileName[r][1])))
  /\ UNCHANGED <<requestData, chat, rejected, response, imageData, mimeType,
                 textResponse, fileName, counters, now, fsvars>>
\* fs.writeFile(filePath, buffer) rejects: not caught locally -> outer catch
WriteImageFailed(r) ==
  /\ fail500(r, FsError)
  /\ UNCHANGED <<requestData, chat, rejected, locals, counters, now, fsvars>>

WriteImage(r) ==
  /\ pc[r] = "writeImage"
  /\ (WriteImageOk(r) \/ WriteImageFailed(r))

\* saveRecord: fs.readFile + JSON.parse settle, then data.push(record)
ReadStore(r, ok) ==
  /\ pc[r] = "readFile"
  /\ ok => dbExists
  /\ data' = [data EXCEPT ![r] = Append(IF ok THEN db ELSE <<>>, record[r][1])]
  /\ pc' = [pc EXCEPT ![r] = "writeStore"]
  /\ UNCHANGED <<requestData, chat, rejected, response, imageData, mimeType,
                 textResponse, fileName, storedImagePath, record, counters,
                 now, fsvars>>

\* lines 240-243
finalResponse(r) ==
  [image |-> IF hasImage(imageData[r])
             THEN Some(dataUrl(mimeType[r], imageData[r][1]))
             ELSE Null,
   description |-> textResponse[r]]

\* saveRecord: fs.writeFile(DB_FILE_PATH, ...) settles and saveRecord's frame
\* (its local data) is gone; a failure is caught and logged at lines
\* 235-237; then the handler responds
WriteStore(r, ok) ==
  /\ pc[r] = "writeStore"
  /\ IF ok
     THEN /\ db' = data[r]
          /\ dbExists' = TRUE
          /\ appends' = [appends EXCEPT ![r] = @ + 1]
     ELSE UNCHANGED <<db, dbExists, appends>>
  /\ data' = [data EXCEPT ![r] = <<>>]
  /\ respond(r, 200, finalResponse(r))
  /\ UNCHANGED <<requestData, chat, rejected, imageData, mimeType,
                 textResponse, fileName, storedImagePath, record, calls,
                 imgWrites, now, dirExists, files>>

\* the wall clock advances
Tick ==
  /\ now < MaxClock
  /\ now' = now + 1
  /\ UNCHANGED <<pc, requestData, chat, rejected, response, locals, counters,
                 fsvars>>

\* Concurrent requests; the request and reply shapes that only differ in
\* how a single request is translated are exercised by SpecOne below.
Next ==
  \/ \E r \in Reqs : ReceiveMalformed(r)
  \/ \E r \in Reqs, b \in ConcurrentBodies : Receive(r, b)
  \/ \E r \in Reqs, m \in ProviderErrors : ProviderRejected(r, m)
  \/ \E r \in Reqs, reply \in ConcurrentReplies : ProviderResolved(r, reply)
  \/ \E r \in Reqs, ok \in BOOLEAN : Mkdir(r, ok)
  \/ \E r \in Reqs : WriteImage(r)
  \/ \E r \in Reqs, ok \in BOOLEAN : ReadStore(r, ok)
  \/ \E r \in Reqs, ok \in BOOLEAN : WriteStore(r, ok)
  \/ Tick

Spec == Init /\ [][Next]_vars

\* One request, every request shape and every reply shape.
NextOne ==
  \/ ReceiveMalformed(1)
  \/ \E b \in Bodies : Receive(1, b)
  \/ \E m \in ProviderErrors : ProviderRejected(1, m)
  \/ \E reply \in Replies : ProviderResolved(1, reply)
  \/ \E ok \in BOOLEAN : Mkdir(1, ok)
  \/ WriteImage(1)
  \/ \E ok \in BOOLEAN : ReadStore(1, ok)
  \/ \E ok \in BOOLEAN : WriteStore(1, ok)
  \/ Tick

SpecOne == Init /\ [][NextOne]_vars

\* ---------------------------------------------------------------- claims
Parsed(r) == requestData[r] # Null
Body(r) == requestData[r][1]
Done(r) == pc[r] = "done"
Status(r) == response[r][1].status
Json(r) == response[r][1].json
HasPrompt(b) == "prompt" \in DOMAIN b /\ b.prompt # <<>>
HasInputImage(b) == "image" \in DOMAIN b /\ b.image # <<>>
HasHistory(b) == "history" \in DOMAIN b /\ b.history # <<>>
ImageReturned(r) == Done(r) /\ Status(r) = 200 /\ Json(r).image # Null
FileStored(name) == \E f \in files : f.name = name

\* C1: a request whose body has no prompt (absent or empty) is answered
\* with status 400 and the provider is never called for it.
C1_NoPromptRejected ==
  \A r \in Reqs :
    (Parsed(r) /\ ~HasPrompt(Body(r))) =>
      /\ Done(r) /\ Status(r) = 400
      /\ calls[r] = 0 /\ chat[r] = Null

C1_Witness ==
  \E r \in Reqs :
    /\ Parsed(r) /\ Body(r) = [prompt |-> <<>>, image |-> PngUrl]
    /\ Done(r) /\ Status(r) = 400

\* C2 (as stated): every 200 response with a non-null image has exactly one
\* stored image file and exactly one appended record.
C2_Original ==
  \A r \in Reqs :
    ImageReturned(r) => (imgWrites[r] = 1 /\ appends[r] = 1)

\* C2 (amended): every 200 response with a non-null image has exactly one
\* stored image file and at most one appended record (none when the store
\* rewrite failed).
C2_OneFileAtMostOneRecord ==
  \A r \in Reqs :
    ImageReturned(r) =>
      /\ imgWrites[r] = 1
      /\ fileName[r] # Null /\ FileStored(fileName[r][1])
      /\ storedImagePath[r] = Some(publicPath(fileName[r][1]))
      /\ appends[r] <= 1

C2_Witness ==
  \E r \in Reqs : ImageReturned(r) /\ imgWrites[r] = 1 /\ appends[r] = 0

\* C3: two requests that both completed successfully with an image leave two
\* distinct image files.
C3_TwoFiles ==
  \A r1, r2 \in Reqs :
    (r1 # r2 /\ ImageReturned(r1) /\ ImageReturned(r2)) =>
      /\ fileName[r1] # fileName[r2]
      /\ FileStored(fileName[r1][1]) /\ FileStored(fileName[r2][1])

\* C4: once the provider call succeeded, the request is answered with 200
\* and the in-memory image and description, whatever the persistence steps do.
C4_PersistenceNeverFails ==
  \A r \in Reqs :
    (Done(r) /\ calls[r] = 1 /\ rejected[r] = Null) =>
      (Status(r) = 200 /\ Json(r) = finalResponse(r))

\* C5: a request with a prompt and a malformed input image (no "data:"
\* prefix, or no comma) is answered with status 400.
C5_MalformedImageIs400 ==
  \A r \in Reqs :
    (/\ Parsed(r) /\ HasPrompt(Body(r)) /\ HasInputImage(Body(r))
     /\ \/ Body(r).image[1] # DATA
        \/ \A i \in 1..Len(Body(r).image) : Body(r).image[i] # COMMA) =>
      (Done(r) /\ Status(r) = 400)

\* C6: a request with a prompt and an input image that does not start with
\* "data:" fails before the provider call: no call, no file, no record.
C6_NoPrefixFailsEarly ==
  \A r \in Reqs :
    (/\ Parsed(r) /\ HasPrompt(Body(r)) /\ HasInputImage(Body(r))
     /\ Body(r).image[1] # DATA) =>
      /\ Done(r) /\ Status(r) # 200
      /\ calls[r] = 0 /\ chat[r] = Null
      /\ imgWrites[r] = 0 /\ appends[r] = 0 /\ record[r] = Null

C6_Witness ==
  \E r \in Reqs :
    /\ Parsed(r) /\ Body(r) = [prompt |-> <<"p">>, image |-> NoPrefixUrl]
    /\ Done(r)

\* C7: every entry of the translated history passed to the provider has at
\* least one part, and every part is a non-empty text unit or an
\* inline-binary unit.
C7_NoEmptyTurns ==
  \A r \in Reqs :
    chat[r] # Null =>
      \A i \in 1..Len(chat[r][1].history) :
        LET parts == chat[r][1].history[i].parts
        IN /\ Len(parts) >= 1
           /\ \A j \in 1..Len(parts) :
                \/ "inlineData" \in DOMAIN parts[j]
                \/ "text" \in DOMAIN parts[j] /\ parts[j].text # <<>>

\* C8: when the provider call fails the request ends with status 500 and
\* the underlying message, the provider is not called again, and the
\* request writes no image file and appends no record.
C8_ProviderFailure ==
  \A r \in Reqs :
    rejected[r] # Null =>
      /\ Done(r) /\ Status(r) = 500 /\ Json(r).details = rejected[r][1]
      /\ calls[r] = 1
      /\ imgWrites[r] = 0 /\ appends[r] = 0 /\ record[r] = Null

C8_Witness ==
  \E r \in Reqs : rejected[r] # Null /\ Done(r) /\ dbExists

\* C9: a request with a prompt, no image and no history makes exactly one
\* provider call, whose message is the single text part holding the prompt
\* and whose history is empty.
C9_SingleTextPart ==
  \A r \in Reqs :
    (/\ Parsed(r) /\ HasPrompt(Body(r))
     /\ ~HasInputImage(Body(r)) /\ ~HasHistory(Body(r))) =>
      /\ calls[r] = 1
      /\ chat[r] = Some([history |-> <<>>,
                         message |-> <<[text |-> Body(r).prompt]>>])

C9_Witness ==
  \E r \in Reqs :
    /\ Parsed(r) /\ Body(r) = [prompt |-> <<"p">>]
    /\ Done(r) /\ Status(r) = 200 /\ calls[r] = 1

\* C10: every record of the JSON store (and of every array about to be
\* written to it) whose imagePath is non-null names an existing image file.
C10_NoDanglingRecord ==
  /\ \A i \in 1..Len(db) :
       db[i].imagePath # Null => FileStored(db[i].imagePath[1].fileName)
  /\ \A r \in Reqs : \A i \in 1..Len(data[r]) :
       data[r][i].imagePath # Null =>
         FileStored(data[r][i].imagePath[1].fileName)

C10_Witness ==
  /\ Len(db) = 2
  /\ db[1].imagePath # Null /\ db[2].imagePath # Null

====
